---- MODULE Spec2Model ----
(***************************************************************************)
(* link-bridge: URL path validation (src/redirector/url_path.rs) and the   *)
(* Redirector with its per-directory registry (src/redirector.rs).         *)
(*                                                                         *)
(* Strings are sequences of one-character strings.  The file system is a   *)
(* set of existing directories and a map from path strings to file         *)
(* contents.                                                               *)
(***************************************************************************)
EXTENDS Integers, Sequences, FiniteSets, TLC

VARIABLES
    now,        \* wall clock, milliseconds (Utc::now().timestamp_millis())
    rd,         \* the Redirector values the caller holds, by slot
    fs,         \* the file system: [dirs, files]
    last,       \* the last operation and what it returned
    returned,   \* history: {[dir, key, path]} of every Ok(path) of write_redirect
    created,    \* history: {[dir, key, file]} of every HTML file File::create made
    faults,     \* history: how many write_redirect calls met a failing I/O call
    input,      \* UrlPath specification: the raw string
    parsed,     \* UrlPath specification: UrlPath::new(input)
    reparsed,   \* UrlPath specification: UrlPath::new(parsed.to_string())
    forms,      \* UrlPath specification: UrlPath::new of the four spellings
    page,       \* UrlPath specification: the document rendered for parsed
    names,      \* name specification: {[path, t, panic, name]} generated so far
    proc        \* race specification: each writer's position in write_redirect

vars ==
    <<now, rd, fs, last, returned, created, faults, input, parsed, reparsed, forms,
      page, names, proc>>

(***************************************************************************)
(* Bounds of the model.                                                    *)
(***************************************************************************)
MaxLen == 5          \* longest raw string of the UrlPath specification
StartMillis == 1000  \* the clock's value in the initial state
MaxTicks == 1        \* the clock advances at most this many milliseconds
MaxFaults == 1       \* at most this many write_redirect calls meet a failing I/O call
MaxNameLen == 3      \* longest raw string of the name specification

None == "none"

(***************************************************************************)
(* Characters.                                                             *)
(***************************************************************************)
Chars == {"a", "b", "/", ";", "#", "?", "'"}

\* str's chars().next() == Some(c)
StartsWith(s, c) == Len(s) > 0 /\ s[1] = c

\* str's chars().last() == Some(c)
EndsWith(s, c) == Len(s) > 0 /\ s[Len(s)] = c

RECURSIVE SeqsUpTo(_, _)
SeqsUpTo(S, n) ==
    IF n = 0 THEN {<<>>}
    ELSE LET shorter == SeqsUpTo(S, n - 1)
         IN  shorter \cup {Append(s, c) : s \in {t \in shorter : Len(t) = n - 1}, c \in S}

(***************************************************************************)
(* UrlPath::new: the pattern ^/?[^/;#?]+(?:/[^/;#?]+)*/?$ matched as a set *)
(* of end positions, one operator per construct of the pattern.            *)
(***************************************************************************)
\* the negated class [^/;#?]
SegCharMutHashAllowed(c) == c \notin {"/", ";", "?"}
SegChar(c) == c \notin {"/", ";", "#", "?"}

\* a literal '/' consumed from each position of P
Slash(s, P) == {i + 1 : i \in {j \in P : j < Len(s) /\ s[j + 1] = "/"}}

\* /? : the slash is optional
OptSlash(s, P) == P \cup Slash(s, P)

\* [^/;#?]+ : one or more characters of the class
SegPlus(s, P) ==
    {j \in 1..Len(s) : \E i \in P : i < j /\ \A k \in (i + 1)..j : SegChar(s[k])}

\* (?:/[^/;#?]+)* : zero or more repetitions of the group
RECURSIVE GroupStar(_, _)
GroupStar(s, P) ==
    LET more == SegPlus(s, Slash(s, P)) \ P
    IN  IF more = {} THEN P ELSE GroupStar(s, P \cup more)

\* RE.is_match(&path), anchored at both ends
IsMatch(s) == Len(s) \in OptSlash(s, GroupStar(s, SegPlus(s, OptSlash(s, {0}))))

\* the two normalising insertions
InsertLeadingMutNever(s) == s
InsertLeading(s) == IF ~StartsWith(s, "/") THEN <<"/">> \o s ELSE s

PushTrailingMutAlways(s) == Append(s, "/")
PushTrailing(s) == IF ~EndsWith(s, "/") THEN Append(s, "/") ELSE s

UrlPathNewMutPrependAlways(path) ==
    IF ~IsMatch(path)
    THEN [ok |-> FALSE, err |-> "InvalidPath", val |-> path]
    ELSE [ok |-> TRUE, err |-> None, val |-> PushTrailing(<<"/">> \o path)]
UrlPathNew(path) ==
    IF ~IsMatch(path)
    THEN [ok |-> FALSE, err |-> "InvalidPath", val |-> path]
    ELSE [ok |-> TRUE, err |-> None, val |-> PushTrailing(InsertLeading(path))]

\* impl Display for UrlPath: the inner string
UrlPathToString(u) == u

(***************************************************************************)
(* The UrlPath specification: one raw string, validated, and its string    *)
(* form validated again.                                                   *)
(***************************************************************************)
RawStrings == SeqsUpTo(Chars, MaxLen)

NoResult == [ok |-> FALSE, err |-> None, val |-> <<>>]

Returned(res) == res.ok \/ res.err # None

\* the four spellings of a canonical path: its segments with and without a
\* leading and a trailing slash
Spellings(canonical) ==
    LET bare == SubSeq(canonical, 2, Len(canonical) - 1)
    IN  <<bare, <<"/">> \o bare, Append(bare, "/"), canonical>>

(***************************************************************************)
(* Short file names.                                                       *)
(***************************************************************************)
\* the character U+FFFD, one UTF-16 code unit of value 65533
ReplacementChar == "U+FFFD"

\* the UTF-16 code unit of each character of the model (all in the BMP)
CodeUnit(c) ==
    CASE c = "a" -> 97
      [] c = "b" -> 98
      [] c = "/" -> 47
      [] c = ";" -> 59
      [] c = "#" -> 35
      [] c = "?" -> 63
      [] c = "'" -> 39
      [] c = ReplacementChar -> 65533

\* UrlPath::encode_utf16
EncodeUtf16(u) == [i \in 1..Len(u) |-> CodeUnit(u[i])]

U16Modulus == 65536

\* iter().sum::<u16>(): [wrapped sum, whether an addition overflowed]
RECURSIVE SumU16(_)
SumU16(units) ==
    IF units = <<>> THEN [sum |-> 0, overflow |-> FALSE]
    ELSE LET rest == SumU16(SubSeq(units, 1, Len(units) - 1))
             full == rest.sum + units[Len(units)]
         IN  [sum |-> full % U16Modulus,
              overflow |-> rest.overflow \/ full >= U16Modulus]

\* base62::encode: digits 0-9, A-Z, a-z, most significant first
Base62Alphabet ==
    <<"0", "1", "2", "3", "4", "5", "6", "7", "8", "9",
      "A", "B", "C", "D", "E", "F", "G", "H", "I", "J", "K", "L", "M",
      "N", "O", "P", "Q", "R", "S", "T", "U", "V", "W", "X", "Y", "Z",
      "a", "b", "c", "d", "e", "f", "g", "h", "i", "j", "k", "l", "m",
      "n", "o", "p", "q", "r", "s", "t", "u", "v", "w", "x", "y", "z">>

RECURSIVE Base62Encode(_)
Base62Encode(n) ==
    IF n < 62 THEN <<Base62Alphabet[n + 1]>>
    ELSE Append(Base62Encode(n \div 62), Base62Alphabet[(n % 62) + 1])

HtmlExt == <<".", "h", "t", "m", "l">>

\* Redirector::generate_short_file_name at instant t: the name, or a panic.
\* An overflowing u16 sum wraps in a build without overflow checks and
\* panics in a build with them.
GenerateShortFileNameMutNoClock(long_path, t) ==
    LET s == SumU16(EncodeUtf16(long_path))
        name == [panic |-> FALSE, name |-> Base62Encode(s.sum) \o HtmlExt]
    IN  IF s.overflow THEN {name, [panic |-> TRUE, name |-> <<>>]} ELSE {name}
GenerateShortFileNameMutOrdered(long_path, t) ==
    LET s == SumU16(EncodeUtf16(long_path))
        first == EncodeUtf16(long_path)[2]
        name == [panic |-> FALSE, name |-> Base62Encode(t + s.sum + first) \o HtmlExt]
    IN  IF s.overflow THEN {name, [panic |-> TRUE, name |-> <<>>]} ELSE {name}
GenerateShortFileName(long_path, t) ==
    LET s == SumU16(EncodeUtf16(long_path))
        name == [panic |-> FALSE, name |-> Base62Encode(t + s.sum) \o HtmlExt]
    IN  IF s.overflow THEN {name, [panic |-> TRUE, name |-> <<>>]} ELSE {name}

(***************************************************************************)
(* Redirector values.                                                      *)
(***************************************************************************)
DefaultDir == <<"s">>

\* #[derive(Default)]: empty UrlPath, empty OsString, empty PathBuf
RedirectorDefault == [long_path |-> <<>>, short_file_name |-> <<>>, path |-> <<>>]

NoRedirector == [live |-> FALSE, r |-> RedirectorDefault]

\* Redirector::new: what it can return
RedirectorNewMutUnchecked(raw, t) ==
    {[ok |-> TRUE, err |-> None,
      r |-> [long_path |-> PushTrailing(InsertLeading(raw)), short_file_name |-> g.name,
             path |-> DefaultDir]] :
        g \in {x \in GenerateShortFileName(PushTrailing(InsertLeading(raw)), t) : ~x.panic}}
RedirectorNew(raw, t) ==
    LET u == UrlPathNew(raw)
    IN  IF ~u.ok THEN {[ok |-> FALSE, err |-> "InvalidUrlPath", r |-> RedirectorDefault]}
        ELSE {IF g.panic THEN [ok |-> FALSE, err |-> "panic", r |-> RedirectorDefault]
              ELSE [ok |-> TRUE, err |-> None,
                    r |-> [long_path |-> u.val, short_file_name |-> g.name,
                           path |-> DefaultDir]] :
                g \in GenerateShortFileName(u.val, t)}

\* Redirector::set_path
RedirectorSetPathMutRebuild(r, path) == [RedirectorDefault EXCEPT !.path = path]
RedirectorSetPath(r, path) == [r EXCEPT !.path = path]

(***************************************************************************)
(* The redirect document: the format string cut into pieces, each a        *)
(* literal text followed by what is interpolated after it (nothing, or     *)
(* {target}).  The pieces in order, each followed by its argument, are the *)
(* text written.                                                           *)
(***************************************************************************)
\* the character U+0060 of the format string, which a string written here
\* cannot hold
GraveAccent == "U+0060"

RenderMutBareHref(long_path) ==
    LET target == UrlPathToString(long_path)
    IN  << [lit |-> "\n    <!DOCTYPE HTML>\n    <html lang=\"en-US\">\n\n    <head>\n        <meta charset=\"UTF-8\">\n        <meta http-equiv=\"refresh\" content=\"0; ",
            arg |-> <<>>],
           [lit |-> "url=", arg |-> target],
           [lit |-> "\">\n        <script type=\"text/javascript\">\n            ",
            arg |-> <<>>],
           [lit |-> "window.location.href = \"", arg |-> target],
           [lit |-> "\";\n        </script>\n        <title>Page Redirection</title>\n    </head>\n\n    <body>\n        <!-- Note: don't tell people to ",
            arg |-> <<>>],
           [lit |-> GraveAccent, arg |-> <<>>],
           [lit |-> "click", arg |-> <<>>],
           [lit |-> GraveAccent, arg |-> <<>>],
           [lit |-> " the link, just tell them that it is a link. -->\n        If you are not redirected automatically, follow this <a ",
            arg |-> <<>>],
           [lit |-> "href='", arg |-> SubSeq(target, 2, Len(target))],
           [lit |-> "'>link to page</a>.\n    </body>\n\n    </html>\n    ",
            arg |-> <<>>] >>
Render(long_path) ==
    LET target == UrlPathToString(long_path)
    IN  << [lit |-> "\n    <!DOCTYPE HTML>\n    <html lang=\"en-US\">\n\n    <head>\n        <meta charset=\"UTF-8\">\n        <meta http-equiv=\"refresh\" content=\"0; ",
            arg |-> <<>>],
           [lit |-> "url=", arg |-> target],
           [lit |-> "\">\n        <script type=\"text/javascript\">\n            ",
            arg |-> <<>>],
           [lit |-> "window.location.href = \"", arg |-> target],
           [lit |-> "\";\n        </script>\n        <title>Page Redirection</title>\n    </head>\n\n    <body>\n        <!-- Note: don't tell people to ",
            arg |-> <<>>],
           [lit |-> GraveAccent, arg |-> <<>>],
           [lit |-> "click", arg |-> <<>>],
           [lit |-> GraveAccent, arg |-> <<>>],
           [lit |-> " the link, just tell them that it is a link. -->\n        If you are not redirected automatically, follow this <a ",
            arg |-> <<>>],
           [lit |-> "href='", arg |-> target],
           [lit |-> "'>link to page</a>.\n    </body>\n\n    </html>\n    ",
            arg |-> <<>>] >>

(***************************************************************************)
(* Paths and the file system.                                              *)
(***************************************************************************)
\* PathBuf::join with a relative component
Join(dir, name) ==
    IF dir = <<>> THEN name
    ELSE IF EndsWith(dir, "/") THEN dir \o name
    ELSE dir \o <<"/">> \o name

\* Path::parent of a relative path: all before the last '/'
Parent(p) ==
    LET cuts == {i \in 1..Len(p) : p[i] = "/"}
    IN  IF cuts = {} THEN <<>>
        ELSE SubSeq(p, 1, (CHOOSE i \in cuts : \A j \in cuts : j <= i) - 1)

\* the directories fs::create_dir_all makes, outermost first
RECURSIVE Ancestors(_)
Ancestors(d) == IF d = <<>> THEN <<>> ELSE Append(Ancestors(Parent(d)), d)

Range(s) == {s[i] : i \in 1..Len(s)}

Min(a, b) == IF a < b THEN a ELSE b

\* Path::exists
PathExists(f, p) == p \in f.dirs \/ p \in DOMAIN f.files

\* whether File::create(p) can succeed: p names a file (its last component
\* is not empty) in an existing directory
CanCreate(f, p) ==
    /\ p # <<>>
    /\ ~EndsWith(p, "/")
    /\ p \notin f.dirs
    /\ Parent(p) = <<>> \/ Parent(p) \in f.dirs

\* a file's content: whether the last write of it completed, and what it holds
Content(complete, data) == [complete |-> complete, data |-> data]

PutFile(f, p, c) == [f EXCEPT !.files = (p :> c) @@ f.files]

EmptyFs == [dirs |-> {}, files |-> <<>>]

REDIRECT_REGISTRY ==
    <<"r", "e", "g", "i", "s", "t", "r", "y", ".", "j", "s", "o", "n">>

(***************************************************************************)
(* The registry file: a JSON object, here the sequence of its members.     *)
(***************************************************************************)
\* serde_json::from_reader::<_, HashMap<String, String>>: a member repeated
\* later in the text replaces the earlier one
RegistryParse(content) ==
    IF ~content.complete THEN [ok |-> FALSE, map |-> <<>>]
    ELSE LET d == content.data
             keys == {d[i][1] : i \in 1..Len(d)}
             lastOf(k) == CHOOSE i \in 1..Len(d) :
                              d[i][1] = k /\ \A j \in 1..Len(d) : d[j][1] = k => j <= i
         IN  [ok |-> TRUE, map |-> [k \in keys |-> d[lastOf(k)][2]]]

\* serde_json::to_writer_pretty of a HashMap: its members in the order the
\* map iterates them, which is any order; rank lists the keys in that order
RegistryText(map, rank) ==
    LET keys == SelectSeq(rank, LAMBDA k : k \in DOMAIN map)
    IN  [i \in 1..Len(keys) |-> <<keys[i], map[keys[i]]>>]

\* HashMap::insert
RegistryInsertMutOnlyNew(map, key, value) == (key :> value)
RegistryInsert(map, key, value) == (key :> value) @@ map

\* what a write that fails part-way leaves: the first pieces of the data
Truncated(data, cut) == SubSeq(data, 1, Min(cut, Len(data) - 1))

(***************************************************************************)
(* Redirector::write_redirect on file system f.  fault names the I/O call  *)
(* that fails, if it is reached ("none": every call succeeds); cut is how  *)
(* much a failing call had done; rank is the order the registry is         *)
(* written in.  The result: the file system left, Ok(path) or Err(err),    *)
(* the HTML files created, and whether the registry held the key.          *)
(***************************************************************************)
Faults ==
    {"none", "create_dir_all", "open_registry", "read_registry", "create_html",
     "write_html", "sync_html", "create_registry", "write_registry"}

Cuts == {0, 1}

\* the calls whose failure leaves part of their work done
Partial == {"create_dir_all", "write_html", "write_registry"}

\* the cases in which the registry is written
Saving == {"none", "write_registry"}

\* the call returned Ok(path)
Outcome(f, path, made, hit) ==
    [fs |-> f, ok |-> TRUE, err |-> None, path |-> path, made |-> made, hit |-> hit,
     at |-> "none"]

\* the call returned Err(err); at is the step that failed
Failed(f, err, made, at) ==
    [fs |-> f, ok |-> FALSE, err |-> err, path |-> <<>>, made |-> made, hit |-> FALSE,
     at |-> at]

\* lines 298-301: create the store directory if it does not exist
EnsureDirMutNoCreate(r, f, fault, cut) == [ok |-> TRUE, fs |-> f]
EnsureDir(r, f, fault, cut) ==
    LET chain == Ancestors(r.path)
        done == {i \in 1..Len(chain) : i <= Min(cut, Len(chain) - 1)}
    IN  IF PathExists(f, r.path) \/ r.path = <<>> THEN [ok |-> TRUE, fs |-> f]
        ELSE IF fault = "create_dir_all"
        THEN [ok |-> FALSE, fs |-> [f EXCEPT !.dirs = @ \cup {chain[i] : i \in done}]]
        ELSE [ok |-> TRUE, fs |-> [f EXCEPT !.dirs = @ \cup Range(chain)]]

\* lines 303-308: the registry, empty when the file does not exist
LoadRegistryMutDiscard(r, f, fault) ==
    LET regPath == Join(r.path, REDIRECT_REGISTRY)
        parse == RegistryParse(f.files[regPath])
    IN  IF ~PathExists(f, regPath) \/ ~parse.ok
        THEN [ok |-> TRUE, err |-> None, at |-> "none", map |-> <<>>]
        ELSE [ok |-> TRUE, err |-> None, at |-> "none", map |-> parse.map]
LoadRegistry(r, f, fault) ==
    LET regPath == Join(r.path, REDIRECT_REGISTRY)
        parse == RegistryParse(f.files[regPath])
    IN  IF ~PathExists(f, regPath)
        THEN [ok |-> TRUE, err |-> None, at |-> "none", map |-> <<>>]
        ELSE IF fault = "open_registry"
        THEN [ok |-> FALSE, err |-> "FileCreationError", at |-> "open_registry", map |-> <<>>]
        ELSE IF fault = "read_registry"
        THEN [ok |-> FALSE, err |-> "FailedToReadRegistry", at |-> "read_registry",
              map |-> <<>>]
        ELSE IF ~parse.ok
        THEN [ok |-> FALSE, err |-> "FailedToReadRegistry", at |-> "parse_registry",
              map |-> <<>>]
        ELSE [ok |-> TRUE, err |-> None, at |-> "none", map |-> parse.map]

\* lines 316-320: create, write and sync the HTML file
WriteHtmlMutSkip(r, f, fault, cut) == [ok |-> TRUE, at |-> "none", made |-> {}, fs |-> f]
WriteHtml(r, f, fault, cut) ==
    LET file_path == Join(r.path, r.short_file_name)
        doc == Render(r.long_path)
    IN  IF fault = "create_html" \/ ~CanCreate(f, file_path)
        THEN [ok |-> FALSE, at |-> "create_html", fs |-> f, made |-> {}]
        ELSE IF fault = "write_html"
        THEN [ok |-> FALSE, at |-> "write_html", made |-> {file_path},
              fs |-> PutFile(f, file_path, Content(FALSE, Truncated(doc, cut)))]
        ELSE IF fault = "sync_html"
        THEN [ok |-> FALSE, at |-> "sync_html", made |-> {file_path},
              fs |-> PutFile(f, file_path, Content(TRUE, doc))]
        ELSE [ok |-> TRUE, at |-> "none", made |-> {file_path},
              fs |-> PutFile(f, file_path, Content(TRUE, doc))]

\* lines 322-330: insert the entry and write the whole registry
SaveRegistryMutMerge(r, f, map, fault, cut, rank) ==
    LET regPath == Join(r.path, REDIRECT_REGISTRY)
        file_path == Join(r.path, r.short_file_name)
        current == IF PathExists(f, regPath) THEN RegistryParse(f.files[regPath]).map
                   ELSE <<>>
        registry == RegistryInsert(current, UrlPathToString(r.long_path), file_path)
        data == RegistryText(registry, rank)
    IN  [ok |-> TRUE, err |-> None, at |-> "none",
         fs |-> PutFile(f, regPath, Content(TRUE, data))]
SaveRegistry(r, f, map, fault, cut, rank) ==
    LET regPath == Join(r.path, REDIRECT_REGISTRY)
        file_path == Join(r.path, r.short_file_name)
        registry == RegistryInsert(map, UrlPathToString(r.long_path), file_path)
        data == RegistryText(registry, rank)
    IN  IF fault = "create_registry" \/ ~CanCreate(f, regPath)
        THEN [ok |-> FALSE, err |-> "FileCreationError", at |-> "create_registry", fs |-> f]
        ELSE IF fault = "write_registry"
        THEN [ok |-> FALSE, err |-> "FailedToReadRegistry", at |-> "write_registry",
              fs |-> PutFile(f, regPath, Content(FALSE, Truncated(data, cut)))]
        ELSE [ok |-> TRUE, err |-> None, at |-> "none",
              fs |-> PutFile(f, regPath, Content(TRUE, data))]

\* lines 312-315: the lookup
RegistryGetMutMiss(map, key) == [found |-> FALSE, value |-> <<>>]
RegistryGet(map, key) ==
    IF key \in DOMAIN map THEN [found |-> TRUE, value |-> map[key]]
    ELSE [found |-> FALSE, value |-> <<>>]

WriteRedirectMutWriteFirst(r, f, fault, cut, rank) ==
    LET dir == EnsureDir(r, f, fault, cut)
        reg == LoadRegistry(r, dir.fs, fault)
        file_path == Join(r.path, r.short_file_name)
        existing == RegistryGet(reg.map, UrlPathToString(r.long_path))
        html == WriteHtml(r, dir.fs, fault, cut)
        save == SaveRegistry(r, html.fs, reg.map, fault, cut, rank)
    IN  IF ~dir.ok THEN Failed(dir.fs, "FileCreationError", {}, "create_dir_all")
        ELSE IF ~reg.ok THEN Failed(dir.fs, reg.err, {}, reg.at)
        ELSE IF ~html.ok THEN Failed(html.fs, "FileCreationError", html.made, html.at)
        ELSE IF existing.found THEN Outcome(html.fs, existing.value, html.made, TRUE)
        ELSE IF ~save.ok THEN Failed(save.fs, save.err, html.made, save.at)
        ELSE Outcome(save.fs, file_path, html.made, FALSE)
WriteRedirectMutReturnsName(r, f, fault, cut, rank) ==
    LET dir == EnsureDir(r, f, fault, cut)
        reg == LoadRegistry(r, dir.fs, fault)
        existing == RegistryGet(reg.map, UrlPathToString(r.long_path))
        html == WriteHtml(r, dir.fs, fault, cut)
        save == SaveRegistry(r, html.fs, reg.map, fault, cut, rank)
    IN  IF ~dir.ok THEN Failed(dir.fs, "FileCreationError", {}, "create_dir_all")
        ELSE IF ~reg.ok THEN Failed(dir.fs, reg.err, {}, reg.at)
        ELSE IF existing.found THEN Outcome(dir.fs, existing.value, {}, TRUE)
        ELSE IF ~html.ok THEN Failed(html.fs, "FileCreationError", html.made, html.at)
        ELSE IF ~save.ok THEN Failed(save.fs, save.err, html.made, save.at)
        ELSE Outcome(save.fs, r.short_file_name, html.made, FALSE)
WriteRedirectMutChecksName(r, f, fault, cut, rank) ==
    LET dir == EnsureDir(r, f, fault, cut)
        reg == LoadRegistry(r, dir.fs, fault)
        file_path == Join(r.path, r.short_file_name)
        existing == RegistryGet(reg.map, UrlPathToString(r.long_path))
        html == WriteHtml(r, dir.fs, fault, cut)
        save == SaveRegistry(r, html.fs, reg.map, fault, cut, rank)
    IN  IF r.short_file_name = <<>> THEN Failed(f, "ShortLinkNotFound", {}, "none")
        ELSE IF ~dir.ok THEN Failed(dir.fs, "FileCreationError", {}, "create_dir_all")
        ELSE IF ~reg.ok THEN Failed(dir.fs, reg.err, {}, reg.at)
        ELSE IF existing.found THEN Outcome(dir.fs, existing.value, {}, TRUE)
        ELSE IF ~html.ok THEN Failed(html.fs, "FileCreationError", html.made, html.at)
        ELSE IF ~save.ok THEN Failed(save.fs, save.err, html.made, save.at)
        ELSE Outcome(save.fs, file_path, html.made, FALSE)
WriteRedirectMutSaveFirst(r, f, fault, cut, rank) ==
    LET dir == EnsureDir(r, f, fault, cut)
        reg == LoadRegistry(r, dir.fs, fault)
        file_path == Join(r.path, r.short_file_name)
        existing == RegistryGet(reg.map, UrlPathToString(r.long_path))
        save == SaveRegistry(r, dir.fs, reg.map, fault, cut, rank)
        html == WriteHtml(r, save.fs, fault, cut)
    IN  IF ~dir.ok THEN Failed(dir.fs, "FileCreationError", {}, "create_dir_all")
        ELSE IF ~reg.ok THEN Failed(dir.fs, reg.err, {}, reg.at)
        ELSE IF existing.found THEN Outcome(dir.fs, existing.value, {}, TRUE)
        ELSE IF ~save.ok THEN Failed(save.fs, save.err, {}, save.at)
        ELSE IF ~html.ok THEN Failed(html.fs, "FileCreationError", html.made, html.at)
        ELSE Outcome(html.fs, file_path, html.made, FALSE)
WriteRedirect(r, f, fault, cut, rank) ==
    LET dir == EnsureDir(r, f, fault, cut)
        reg == LoadRegistry(r, dir.fs, fault)
        file_path == Join(r.path, r.short_file_name)
        existing == RegistryGet(reg.map, UrlPathToString(r.long_path))
        html == WriteHtml(r, dir.fs, fault, cut)
        save == SaveRegistry(r, html.fs, reg.map, fault, cut, rank)
    IN  IF ~dir.ok THEN Failed(dir.fs, "FileCreationError", {}, "create_dir_all")
        ELSE IF ~reg.ok THEN Failed(dir.fs, reg.err, {}, reg.at)
        ELSE IF existing.found THEN Outcome(dir.fs, existing.value, {}, TRUE)
        ELSE IF ~html.ok THEN Failed(html.fs, "FileCreationError", html.made, html.at)
        ELSE IF ~save.ok THEN Failed(save.fs, save.err, html.made, save.at)
        ELSE Outcome(save.fs, file_path, html.made, FALSE)

(***************************************************************************)
(* The caller: Redirector values held in slots, built, changed and written *)
(* one call at a time, while the clock advances.                           *)
(***************************************************************************)
Slots == {1, 2}

\* the slot of the caller that holds one Redirector at a time
Held == {1}

\* the raw paths the caller asks for: two spellings of /a/, /b/, two invalid
RawInputs == {<<"a">>, <<"/", "a", "/">>, <<"b">>, <<"a", "?">>, <<>>}

\* the output directories the caller sets: the default and a nested one
OutDirs == {DefaultDir, <<"t", "/", "n">>}

CanonicalKeys == {UrlPathNew(raw).val : raw \in {x \in RawInputs : UrlPathNew(x).ok}}

Ranks ==
    LET n == Cardinality(CanonicalKeys)
    IN  {o \in [1..n -> CanonicalKeys] : \A i, j \in 1..n : o[i] = o[j] => i = j}

\* one write_redirect call's environment: the failing call, how far it got,
\* the order the registry is written in (each only where it matters)
FaultCases ==
    {c \in [fault : Faults, cut : Cuts, rank : Ranks] :
        /\ c.fault \notin Partial => c.cut = 0
        /\ c.fault \notin Saving => c.rank = CHOOSE k \in Ranks : TRUE}

\* what the last call was and did: Ok(path) or Err(err), whether the
\* registry held the key, the HTML files it created, the step that failed
Did(op, ok, err, path, hit, made, at) ==
    [op |-> op, ok |-> ok, err |-> err, path |-> path, hit |-> hit, made |-> made,
     at |-> at]

\* no writer is inside write_redirect
NoWriters == <<>>

Init ==
    /\ now = StartMillis
    /\ rd = [s \in Slots |-> NoRedirector]
    /\ fs = EmptyFs
    /\ last = Did("init", TRUE, None, <<>>, FALSE, {}, "none")
    /\ returned = {}
    /\ created = {}
    /\ faults = 0
    /\ input = <<>>
    /\ parsed = NoResult
    /\ reparsed = NoResult
    /\ forms = <<>>
    /\ page = <<>>
    /\ names = {}
    /\ proc = NoWriters

\* a millisecond passes
Tick ==
    /\ now < StartMillis + MaxTicks
    /\ now' = now + 1
    /\ last' = Did("tick", TRUE, None, <<>>, FALSE, {}, "none")
    /\ UNCHANGED <<rd, fs, returned, created, faults, input, parsed, reparsed, forms,
                 page, names, proc>>

\* let r = Redirector::new(raw), kept in the slot when it is Ok
New(slot, raw) ==
    /\ \E res \in RedirectorNew(raw, now) :
        /\ rd' = IF res.ok THEN [rd EXCEPT ![slot] = [live |-> TRUE, r |-> res.r]] ELSE rd
        /\ last' = Did("new", res.ok, res.err, <<>>, FALSE, {}, "none")
    /\ UNCHANGED <<now, fs, returned, created, faults, input, parsed, reparsed, forms,
                 page, names, proc>>

\* let r = Redirector::default()
Default(slot) ==
    /\ rd' = [rd EXCEPT ![slot] = [live |-> TRUE, r |-> RedirectorDefault]]
    /\ last' = Did("default", TRUE, None, <<>>, FALSE, {}, "none")
    /\ UNCHANGED <<now, fs, returned, created, faults, input, parsed, reparsed, forms,
                 page, names, proc>>

\* let r2 = r1.clone()
Clone(from, to) ==
    /\ from # to
    /\ rd[from].live
    /\ rd' = [rd EXCEPT ![to] = rd[from]]
    /\ last' = Did("clone", TRUE, None, <<>>, FALSE, {}, "none")
    /\ UNCHANGED <<now, fs, returned, created, faults, input, parsed, reparsed, forms,
                 page, names, proc>>

\* r.set_path(dir)
SetPath(slot, dir) ==
    /\ rd[slot].live
    /\ rd' = [rd EXCEPT ![slot].r = RedirectorSetPath(@, dir)]
    /\ last' = Did("set_path", TRUE, None, <<>>, FALSE, {}, "none")
    /\ UNCHANGED <<now, fs, returned, created, faults, input, parsed, reparsed, forms,
                 page, names, proc>>

\* r.write_redirect()
Write(slot, case) ==
    /\ rd[slot].live
    /\ case.fault # "none" => faults < MaxFaults
    /\ \E out \in {WriteRedirect(rd[slot].r, fs, case.fault, case.cut, case.rank)} :
        LET r == rd[slot].r
            key == UrlPathToString(r.long_path)
        IN  /\ fs' = out.fs
            /\ last' = Did("write_redirect", out.ok, out.err, out.path, out.hit, out.made, out.at)
            /\ returned' =
                   IF out.ok
                   THEN returned \cup {[dir |-> r.path, key |-> key, path |-> out.path]}
                   ELSE returned
            /\ created' =
                   created \cup {[dir |-> r.path, key |-> key, file |-> p] : p \in out.made}
    /\ faults' = IF case.fault # "none" THEN faults + 1 ELSE faults
    /\ UNCHANGED <<now, rd, input, parsed, reparsed, forms,
                 page, names, proc>>

(***************************************************************************)
(* Spec: a caller that makes one Redirector at a time and writes it into    *)
(* the default directory, one call at a time.                              *)
(***************************************************************************)
Next ==
    \/ Tick
    \/ \E slot \in Held, raw \in RawInputs : New(slot, raw)
    \/ \E slot \in Held, case \in FaultCases : Write(slot, case)

Spec == Init /\ [][Next]_vars

(***************************************************************************)
(* SpecApi: a caller using every public operation of Redirector within one *)
(* millisecond, on a file system whose calls all succeed.                  *)
(***************************************************************************)
\* the environments of SpecApi: every file system call succeeds
ApiCases == {c \in FaultCases : c.fault = "none"}

NextApi ==
    \/ \E slot \in Held, raw \in RawInputs : New(slot, raw)
    \/ \E slot \in Slots, case \in ApiCases : Write(slot, case)
    \/ \E slot \in Slots \ Held : Default(slot)
    \/ \E from \in Held, to \in Slots : Clone(from, to)
    \/ \E slot \in Slots, dir \in OutDirs : SetPath(slot, dir)

SpecApi == Init /\ [][NextApi]_vars

(***************************************************************************)
(* SpecUrlPath: UrlPath::new on every raw string up to MaxLen characters.  *)
(***************************************************************************)
InitUrlPath ==
    /\ now = StartMillis
    /\ rd = [s \in Slots |-> NoRedirector]
    /\ fs = EmptyFs
    /\ last = Did("init", TRUE, None, <<>>, FALSE, {}, "none")
    /\ returned = {}
    /\ created = {}
    /\ faults = 0
    /\ input \in RawStrings
    /\ parsed = NoResult
    /\ reparsed = NoResult
    /\ forms = <<>>
    /\ page = <<>>
    /\ names = {}
    /\ proc = NoWriters

\* UrlPath::new(input)
Parse ==
    /\ ~Returned(parsed)
    /\ parsed' = UrlPathNew(input)
    /\ UNCHANGED <<now, rd, fs, last, returned, created, faults, input, reparsed, forms,
                 page, names, proc>>

\* UrlPath::new(path.to_string()) of the value just made
Reparse ==
    /\ parsed.ok
    /\ ~Returned(reparsed)
    /\ reparsed' = UrlPathNew(UrlPathToString(parsed.val))
    /\ UNCHANGED <<now, rd, fs, last, returned, created, faults, input, parsed, forms,
                 page, names, proc>>

\* UrlPath::new of each spelling of the value just made
ParseSpellings ==
    /\ parsed.ok
    /\ forms = <<>>
    /\ forms' = [i \in 1..4 |-> UrlPathNew(Spellings(UrlPathToString(parsed.val))[i])]
    /\ UNCHANGED <<now, rd, fs, last, returned, created, faults, input, parsed, reparsed,
                 page, names, proc>>

\* Redirector { long_path, .. }.to_string() of the value just made
RenderPage ==
    /\ parsed.ok
    /\ page = <<>>
    /\ page' = Render(parsed.val)
    /\ UNCHANGED <<now, rd, fs, last, returned, created, faults, input, parsed, reparsed,
                   forms, names, proc>>

NextUrlPath == Parse \/ Reparse \/ ParseSpellings \/ RenderPage

SpecUrlPath == InitUrlPath /\ [][NextUrlPath]_vars

(***************************************************************************)
(* What the specification says of raw paths.                               *)
(***************************************************************************)
Forbidden == {";", "#", "?"}

HasForbidden(s) == \E i \in 1..Len(s) : s[i] \in Forbidden

HasEmptySegment(s) == \E i \in 1..(Len(s) - 1) : s[i] = "/" /\ s[i + 1] = "/"

\* the inputs the specification says are rejected
InRejectionSet(s) ==
    s = <<>> \/ s = <<"/">> \/ HasForbidden(s) \/ HasEmptySegment(s)

(***************************************************************************)
(* Properties of write_redirect and Redirector::new, checked under Spec.   *)
(***************************************************************************)
RegistryPath(r) == Join(r.path, REDIRECT_REGISTRY)

FilePath(r) == Join(r.path, r.short_file_name)

\* the registry file of r's directory is whole and has a member for r's path
EntryOnDisk(f, r) ==
    /\ RegistryPath(r) \in DOMAIN f.files
    /\ f.files[RegistryPath(r)].complete
    /\ \E e \in Range(f.files[RegistryPath(r)].data) : e[1] = r.long_path

\* the registry file of r's directory exists and is not a whole JSON object
CorruptOnDisk(f, r) ==
    /\ RegistryPath(r) \in DOMAIN f.files
    /\ ~f.files[RegistryPath(r)].complete

\* C1: all the successful write_redirect calls for one canonical path in one
\* directory return the same file path, whatever short name the Redirector
\* of a later call carries.
C1_RegistryIdempotence ==
    \A x, y \in returned : (x.dir = y.dir /\ x.key = y.key) => x.path = y.path

\* C1 happens: a call found the entry and returned its path, and every
\* Redirector held, the caller's among them, is for that canonical path and
\* carries another short name than the one returned.
C1_Witness ==
    /\ last.op = "write_redirect"
    /\ last.hit
    /\ \A slot \in Held :
        /\ rd[slot].live
        /\ FilePath(rd[slot].r) # last.path
        /\ [dir |-> rd[slot].r.path, key |-> rd[slot].r.long_path, path |-> last.path]
               \in returned

\* C2 as claimed: for each directory and canonical path, at most one HTML
\* file is ever created.
C2_AtMostOneFileCreated ==
    \A x, y \in created : (x.dir = y.dir /\ x.key = y.key) => x.file = y.file

\* C3 as claimed: successful calls for two different canonical paths in one
\* directory return different file paths, and both files exist.
C3_DistinctTargetsDistinctFiles ==
    \A x, y \in returned :
        (x.dir = y.dir /\ x.key # y.key) =>
            /\ x.path # y.path
            /\ x.path \in DOMAIN fs.files
            /\ y.path \in DOMAIN fs.files

\* C4: a write_redirect call made while the registry of its directory is
\* whole and holds its canonical path creates no HTML file and leaves every
\* file, the registry among them, as it was; unless opening or reading the
\* registry fails, it finds the entry and returns the stored path.
C4_HitIsNoOp ==
    [][\A slot \in Held :
        (last'.op = "write_redirect" /\ EntryOnDisk(fs, rd[slot].r))
        => /\ last'.made = {}
           /\ created' = created
           /\ fs' = fs
           /\ last'.hit <=> last'.at \notin {"open_registry", "read_registry"}
           /\ last'.hit =>
                /\ last'.ok
                /\ <<rd[slot].r.long_path, last'.path>> \in
                       Range(fs.files[RegistryPath(rd[slot].r)].data)]_vars

\* C4 happens: a call found the entry while the directory held two HTML
\* files and the registry, and its Redirector carried a name of its own.
C4_Witness ==
    /\ last.op = "write_redirect"
    /\ last.hit
    /\ Cardinality(DOMAIN fs.files) = 3
    /\ \A slot \in Held : rd[slot].live /\ FilePath(rd[slot].r) \notin DOMAIN fs.files

\* C5: Redirector::new of a raw path that fails validation returns
\* InvalidUrlPath, hands out no Redirector, and changes no directory and no
\* file.
C5_InvalidPathNoEffect ==
    [][\A slot \in Held, raw \in RawInputs :
        (last'.op = "new" /\ InRejectionSet(raw) /\ New(slot, raw))
        => /\ ~last'.ok
           /\ last'.err = "InvalidUrlPath"
           /\ rd' = rd
           /\ fs' = fs
           /\ created' = created]_vars

\* C5 happens: Redirector::new returned InvalidUrlPath with files on disk.
C5_Witness ==
    /\ last.op = "new"
    /\ last.err = "InvalidUrlPath"
    /\ DOMAIN fs.files # {}

\* C10: a write_redirect call made while the registry file of its
\* directory is not a whole JSON object, and that opens the file, returns
\* FailedToReadRegistry, creates no HTML file and leaves every file, the
\* registry among them, as it was.
C10_CorruptRegistryHardError ==
    [][\A slot \in Held :
        (/\ last'.op = "write_redirect"
         /\ CorruptOnDisk(fs, rd[slot].r)
         /\ last'.at # "open_registry")
        => /\ ~last'.ok
           /\ last'.err = "FailedToReadRegistry"
           /\ last'.made = {}
           /\ created' = created
           /\ fs' = fs]_vars

\* C10 happens: a call that created nothing returned FailedToReadRegistry
\* and the registry file on disk is cut short.
C10_Witness ==
    /\ last.op = "write_redirect"
    /\ last.err = "FailedToReadRegistry"
    /\ last.at = "parse_registry"
    /\ last.made = {}
    /\ \A slot \in Held : rd[slot].live /\ CorruptOnDisk(fs, rd[slot].r)

Bare(s) ==
    LET from == IF StartsWith(s, "/") THEN 2 ELSE 1
        to == IF EndsWith(s, "/") THEN Len(s) - 1 ELSE Len(s)
    IN  SubSeq(s, from, to)

\* C7: the four spellings of a sequence of segments, with and without a
\* leading and a trailing slash, are all accepted and all normalise to the
\* one value "/" segments "/".
C7_EquivalenceClasses ==
    forms # <<>> =>
        \A i \in 1..4 :
            /\ forms[i].ok
            /\ forms[i].val = <<"/">> \o Bare(input) \o <<"/">>
            /\ forms[i] = parsed

\* C7 happens: two segments given with no slash at either end, and the four
\* spellings, all different strings, validated.
C7_Witness ==
    /\ input = <<"a", "/", "b">>
    /\ forms # <<>>
    /\ forms[1].val = <<"/", "a", "/", "b", "/">>
    /\ Cardinality({Spellings(parsed.val)[i] : i \in 1..4}) = 4

\* C8: every value UrlPath::new returns begins and ends with '/', has at
\* least one segment, no empty segment, and none of ';', '#', '?'.
C8_CanonicalPath ==
    parsed.ok =>
        /\ StartsWith(parsed.val, "/")
        /\ EndsWith(parsed.val, "/")
        /\ Len(parsed.val) >= 3
        /\ ~HasEmptySegment(parsed.val)
        /\ ~HasForbidden(parsed.val)

\* C8 happens: a value made from an input that had neither slash.
C8_Witness ==
    /\ parsed.ok
    /\ ~StartsWith(input, "/")
    /\ ~EndsWith(input, "/")
    /\ Len(parsed.val) = Len(input) + 2

\* C9: the string form of every value UrlPath::new returns is accepted by
\* UrlPath::new and gives the same value.
C9_Idempotence ==
    Returned(reparsed) => reparsed.ok /\ reparsed.val = parsed.val

\* C9 happens: a raw input that is not in canonical form, normalised, and
\* its string form normalised again.
C9_Witness ==
    /\ Returned(reparsed)
    /\ reparsed.ok
    /\ input # parsed.val
    /\ Len(input) >= 3

(***************************************************************************)
(* What a failing write_redirect leaves behind, checked under Spec.        *)
(***************************************************************************)
\* the HTML files of a directory: every file in it but the registry
HtmlFilesIn(f, dir) ==
    {p \in DOMAIN f.files : Parent(p) = dir /\ p # Join(dir, REDIRECT_REGISTRY)}

\* the file paths the registry file of a directory records, none when the
\* file is absent or not a whole JSON object
Referenced(f, dir) ==
    LET regPath == Join(dir, REDIRECT_REGISTRY)
    IN  IF regPath \in DOMAIN f.files /\ f.files[regPath].complete
        THEN {e[2] : e \in Range(f.files[regPath].data)}
        ELSE {}

\* C11 as claimed: a write_redirect call that returns an error leaves no
\* partially written file, no truncated registry file and no HTML file the
\* registry does not reference.
C11_FailureAtomicity ==
    (last.op = "write_redirect" /\ ~last.ok) =>
        \A slot \in Held :
            /\ \A p \in DOMAIN fs.files : fs.files[p].complete
            /\ HtmlFilesIn(fs, rd[slot].r.path) \subseteq Referenced(fs, rd[slot].r.path)

\* the registry file of a directory exists and is a whole JSON object
WholeRegistry(f, dir) ==
    /\ Join(dir, REDIRECT_REGISTRY) \in DOMAIN f.files
    /\ f.files[Join(dir, REDIRECT_REGISTRY)].complete

\* the members of the registry file of a directory
Members(f, dir) == Range(f.files[Join(dir, REDIRECT_REGISTRY)].data)

C17_NewEntryResult ==
    (last.op = "write_redirect" /\ last.ok /\ ~last.hit) =>
        \A slot \in Held :
            LET r == rd[slot].r
            IN  /\ last.path = Join(r.path, r.short_file_name)
                /\ last.path \in DOMAIN fs.files
                /\ fs.files[last.path] = Content(TRUE, Render(r.long_path))
                /\ WholeRegistry(fs, r.path)
                /\ \A e \in Members(fs, r.path) :
                       e[1] = UrlPathToString(r.long_path) => e[2] = last.path
                /\ \E e \in Members(fs, r.path) : e[1] = UrlPathToString(r.long_path)

\* C17 happens: a call created the first entry of a directory that did not
\* exist, and returned s/<name>.html.
C17_Witness ==
    /\ last.op = "write_redirect"
    /\ last.ok
    /\ ~last.hit
    /\ last.made = {last.path}
    /\ StartsWith(last.path, "s")
    /\ Cardinality(DOMAIN fs.files) = 2

(***************************************************************************)
(* Properties of the redirect document, checked under SpecUrlPath.         *)
(***************************************************************************)
\* the text that opens each of the three redirect mechanisms
Mechanisms == {"url=", "window.location.href = \"", "href='"}

\* the destinations a document gives for one mechanism
Destinations(d, m) == {d[i].arg : i \in {j \in 1..Len(d) : d[j].lit = m}}

\* C13: the document rendered for a canonical path p has the meta-refresh
\* target url=p, the script assignment window.location.href = "p" and the
\* link href='p', each once, and interpolates nothing anywhere else.
C13_DocumentAgreement ==
    page # <<>> =>
        /\ \A m \in Mechanisms :
            /\ Cardinality({i \in 1..Len(page) : page[i].lit = m}) = 1
            /\ Destinations(page, m) = {UrlPathToString(parsed.val)}
        /\ \A i \in 1..Len(page) : page[i].lit \notin Mechanisms => page[i].arg = <<>>

\* C13 happens: the document of a two-segment path given without slashes.
C13_Witness ==
    /\ input = <<"a", "/", "b">>
    /\ page # <<>>
    /\ Destinations(page, "href='") = {<<"/", "a", "/", "b", "/">>}

\* the characters that close the contexts the path is interpolated into:
\* the double quote of content="..." and of the script string, the single
\* quote of href='...', the angle brackets of tags
Delimiters == {"\"", "'", "<", ">"}

\* C14 as claimed: no path interpolated into a document holds a delimiter.
C14_NoDelimiterAccepted ==
    page # <<>> =>
        \A i \in 1..Len(page) : \A k \in 1..Len(page[i].arg) : page[i].arg[k] \notin Delimiters

(***************************************************************************)
(* SpecName: Redirector::generate_short_file_name for one path, called as  *)
(* the clock advances.                                                     *)
(***************************************************************************)
\* one-segment raw paths, some holding the high code unit
NameInputs == SeqsUpTo({"a", "b", ReplacementChar}, MaxNameLen) \ {<<>>}

InitName ==
    /\ now = StartMillis
    /\ rd = [s \in Slots |-> NoRedirector]
    /\ fs = EmptyFs
    /\ last = Did("init", TRUE, None, <<>>, FALSE, {}, "none")
    /\ returned = {}
    /\ created = {}
    /\ faults = 0
    /\ input \in NameInputs
    /\ parsed = NoResult
    /\ reparsed = NoResult
    /\ forms = <<>>
    /\ page = <<>>
    /\ names = {}
    /\ proc = NoWriters

\* Redirector::generate_short_file_name(&long_path) at the instant now
Generate ==
    /\ UrlPathNew(input).ok
    /\ \E g \in GenerateShortFileName(UrlPathNew(input).val, now) :
        names' = names \cup
            {[path |-> UrlPathNew(input).val, t |-> now, panic |-> g.panic, name |-> g.name]}
    /\ UNCHANGED <<now, rd, fs, last, returned, created, faults, input, parsed, reparsed,
                   forms, page, proc>>

NextName == Tick \/ Generate

SpecName == InitName /\ [][NextName]_vars

(***************************************************************************)
(* Properties of short file names, checked under SpecName.                 *)
(***************************************************************************)
\* the sum of the code units as an integer of any size
RECURSIVE FullSum(_)
FullSum(units) ==
    IF units = <<>> THEN 0
    ELSE FullSum(SubSeq(units, 1, Len(units) - 1)) + units[Len(units)]

\* C15 as claimed: every generation succeeds, and the name encodes the
\* instant plus the full sum of the path's code units.
C15_SeedArithmetic ==
    \A n \in names :
        /\ ~n.panic
        /\ n.name = Base62Encode(n.t + FullSum(EncodeUtf16(n.path))) \o HtmlExt

\* C16: names generated for one path at instants that differ are different.
C16_DistinctOverTime ==
    \A x, y \in names :
        (x.path = y.path /\ x.t # y.t /\ ~x.panic /\ ~y.panic) => x.name # y.name

\* C16 happens: two names generated one millisecond apart for a path whose
\* sum wraps.
C16_Witness ==
    \E x, y \in names :
        /\ x.path = y.path
        /\ y.t = x.t + 1
        /\ ~x.panic /\ ~y.panic
        /\ FullSum(EncodeUtf16(x.path)) >= U16Modulus

(***************************************************************************)
(* SpecDirs: a caller that makes a Redirector, sets its output directory   *)
(* and writes it.                                                          *)
(***************************************************************************)
NextDirs ==
    \/ \E slot \in Held, raw \in RawInputs : New(slot, raw)
    \/ \E slot \in Held, dir \in OutDirs : SetPath(slot, dir)
    \/ \E slot \in Held, case \in FaultCases : Write(slot, case)

SpecDirs == Init /\ [][NextDirs]_vars

\* C18: a write_redirect call on an output directory that does not exist,
\* in which no I/O call fails, returns Ok, and afterwards the directory and
\* all its parents exist and the returned file is in the directory.
C18_DirectoryAutoCreation ==
    [][\A slot \in Held :
        (/\ last'.op = "write_redirect"
         /\ ~PathExists(fs, rd[slot].r.path)
         /\ faults' = faults)
        => /\ last'.ok
           /\ Range(Ancestors(rd[slot].r.path)) \subseteq fs'.dirs
           /\ last'.path \in DOMAIN fs'.files
           /\ Parent(last'.path) = rd[slot].r.path]_vars

\* C18 happens: the first call into t/n, neither t nor t/n existing before,
\* has left both directories and the redirect file in t/n.
C18_Witness ==
    /\ last.op = "write_redirect"
    /\ last.ok
    /\ fs.dirs = {<<"t">>, <<"t", "/", "n">>}
    /\ Parent(last.path) = <<"t", "/", "n">>
    /\ DOMAIN fs.files = {last.path, Join(<<"t", "/", "n">>, REDIRECT_REGISTRY)}

(***************************************************************************)
(* SpecRace: two writers, each inside one write_redirect call on the       *)
(* default directory, their file system calls interleaved.  Every call     *)
(* succeeds.  A writer goes through: the directory (lines 298-301), the    *)
(* registry load and lookup (303-315), the HTML file (316-320), the        *)
(* registry save (322-330).                                                *)
(***************************************************************************)
Writers == {1, 2}

\* the raw paths the writers ask for
RaceInputs == {<<"a">>, <<"b">>}

\* the Redirector values a writer can hold: made for one of the paths at
\* one of the instants of the clock
RaceRedirectors ==
    {res.r : res \in {x \in UNION {RedirectorNew(raw, t) :
                                      raw \in RaceInputs,
                                      t \in StartMillis..(StartMillis + MaxTicks)} : x.ok}}

\* a writer about to call write_redirect on r
Entering(r) ==
    [pc |-> "dir", r |-> r, map |-> <<>>, ok |-> FALSE, err |-> None, path |-> <<>>,
     hit |-> FALSE]

InitRace ==
    /\ now = StartMillis + MaxTicks
    /\ rd = [s \in Slots |-> NoRedirector]
    /\ fs = EmptyFs
    /\ last = Did("init", TRUE, None, <<>>, FALSE, {}, "none")
    /\ returned = {}
    /\ created = {}
    /\ faults = 0
    /\ input = <<>>
    /\ parsed = NoResult
    /\ reparsed = NoResult
    /\ forms = <<>>
    /\ page = <<>>
    /\ names = {}
    /\ proc \in [Writers -> {Entering(r) : r \in RaceRedirectors}]

\* lines 298-301
RaceEnsureDir(w) ==
    /\ proc[w].pc = "dir"
    /\ fs' = EnsureDir(proc[w].r, fs, "none", 0).fs
    /\ proc' = [proc EXCEPT ![w].pc = "load"]
    /\ UNCHANGED <<now, rd, last, returned, created, faults, input, parsed, reparsed,
                   forms, page, names>>

\* lines 303-315: load the registry, look the path up, return on a hit
RaceLoad(w) ==
    /\ proc[w].pc = "load"
    /\ LET reg == LoadRegistry(proc[w].r, fs, "none")
           existing == RegistryGet(reg.map, UrlPathToString(proc[w].r.long_path))
       IN  proc' =
               IF ~reg.ok
               THEN [proc EXCEPT ![w].pc = "done", ![w].err = reg.err]
               ELSE IF existing.found
               THEN [proc EXCEPT ![w].pc = "done", ![w].ok = TRUE,
                                 ![w].path = existing.value, ![w].hit = TRUE]
               ELSE [proc EXCEPT ![w].pc = "html", ![w].map = reg.map]
    /\ UNCHANGED <<now, rd, fs, last, returned, created, faults, input, parsed, reparsed,
                   forms, page, names>>

\* lines 316-320
RaceWriteHtml(w) ==
    /\ proc[w].pc = "html"
    /\ LET html == WriteHtml(proc[w].r, fs, "none", 0)
       IN  /\ fs' = html.fs
           /\ proc' =
                  IF html.ok THEN [proc EXCEPT ![w].pc = "save"]
                  ELSE [proc EXCEPT ![w].pc = "done", ![w].err = "FileCreationError"]
    /\ UNCHANGED <<now, rd, last, returned, created, faults, input, parsed, reparsed,
                   forms, page, names>>

\* lines 322-333: the map loaded earlier, plus the entry, replaces the file
RaceSave(w) ==
    /\ proc[w].pc = "save"
    /\ \E rank \in Ranks :
        LET save == SaveRegistry(proc[w].r, fs, proc[w].map, "none", 0, rank)
        IN  /\ fs' = save.fs
            /\ proc' =
                   IF save.ok
                   THEN [proc EXCEPT ![w].pc = "done", ![w].ok = TRUE,
                                     ![w].path = Join(proc[w].r.path, proc[w].r.short_file_name)]
                   ELSE [proc EXCEPT ![w].pc = "done", ![w].err = save.err]
    /\ UNCHANGED <<now, rd, last, returned, created, faults, input, parsed, reparsed,
                   forms, page, names>>

NextRace ==
    \/ \E w \in Writers : RaceEnsureDir(w)
    \/ \E w \in Writers : RaceLoad(w)
    \/ \E w \in Writers : RaceWriteHtml(w)
    \/ \E w \in Writers : RaceSave(w)

SpecRace == InitRace /\ [][NextRace]_vars

(***************************************************************************)
(* Properties of concurrent writers, checked under SpecRace.               *)
(***************************************************************************)
\* both calls have returned Ok after a registry miss
BothCreated ==
    \A w \in Writers : proc[w].pc = "done" /\ proc[w].ok /\ ~proc[w].hit

\* what writer w's call should have left in the registry
EntryOf(w) == <<UrlPathToString(proc[w].r.long_path), proc[w].path>>

\* C19: when two writers for different canonical paths have both returned
\* Ok and neither had loaded the other's entry, both HTML files exist and
\* the registry holds one entry only, that of one of the two.
C19_LostUpdate ==
    (/\ BothCreated
     /\ proc[1].r.long_path # proc[2].r.long_path
     /\ \A w \in Writers : DOMAIN proc[w].map = {})
    => /\ \A w \in Writers : proc[w].path \in DOMAIN fs.files
       /\ WholeRegistry(fs, DefaultDir)
       /\ \E w \in Writers : Members(fs, DefaultDir) = {EntryOf(w)}

\* C19 happens: both calls returned Ok with different files, both on disk,
\* and the entry of writer 1 is not in the registry.
C19_Witness ==
    /\ BothCreated
    /\ proc[1].r.long_path # proc[2].r.long_path
    /\ proc[1].path # proc[2].path
    /\ {proc[1].path, proc[2].path} \subseteq DOMAIN fs.files
    /\ Members(fs, DefaultDir) = {EntryOf(2)}

\* C20: when two writers for one canonical path, carrying different short
\* names, have both returned Ok after a miss, they returned different paths,
\* both files exist, the registry holds the single entry of one of them,
\* and the other's file is referenced by nothing.
C20_OrphanFile ==
    (/\ BothCreated
     /\ proc[1].r.long_path = proc[2].r.long_path
     /\ proc[1].r.short_file_name # proc[2].r.short_file_name)
    => /\ proc[1].path # proc[2].path
       /\ \A w \in Writers : proc[w].path \in HtmlFilesIn(fs, DefaultDir)
       /\ WholeRegistry(fs, DefaultDir)
       /\ \E w \in Writers :
            /\ Members(fs, DefaultDir) = {EntryOf(w)}
            /\ \E v \in Writers \ {w} : proc[v].path \notin Referenced(fs, DefaultDir)

\* C20 happens: both writers created /a/, writer 2 saved last, and the file
\* writer 1 returned is on disk and not in the registry.
C20_Witness ==
    /\ BothCreated
    /\ proc[1].r.long_path = proc[2].r.long_path
    /\ proc[1].path # proc[2].path
    /\ Members(fs, DefaultDir) = {EntryOf(2)}
    /\ proc[1].path \in HtmlFilesIn(fs, DefaultDir) \ Referenced(fs, DefaultDir)

(***************************************************************************)
(* The error kinds of write_redirect, checked under Spec.                  *)
(***************************************************************************)
\* C21 as claimed: a failing write_redirect returns FailedToReadRegistry
\* only when the registry file exists and does not parse, and
\* FileCreationError for every failing I/O call, the reads and writes of the
\* registry file included.
C21_ErrorKinds ==
    (last.op = "write_redirect" /\ ~last.ok) =>
        /\ last.err = "FailedToReadRegistry" <=> last.at = "parse_registry"
        /\ last.err = "FileCreationError" <=> last.at # "parse_registry"

(***************************************************************************)
(* Properties of the public operations together, checked under SpecApi.    *)
(***************************************************************************)
\* the error kinds a call has returned in the model
ErrorKinds == {"InvalidUrlPath", "FileCreationError", "FailedToReadRegistry"}

C23_WriteOrdering ==
    [][/\ Referenced(fs', DefaultDir) \subseteq HtmlFilesIn(fs', DefaultDir)
       /\ \A p \in Referenced(fs', DefaultDir) \ Referenced(fs, DefaultDir) :
            fs'.files[p].complete]_vars

\* C23 happens: a call wrote its HTML file and then failed to create the
\* registry file, leaving the registry of an earlier call in place.
C23_Witness ==
    /\ last.op = "write_redirect"
    /\ last.at = "create_registry"
    /\ last.made # {}
    /\ Referenced(fs, DefaultDir) # {}
    /\ last.made \cap Referenced(fs, DefaultDir) = {}

(***************************************************************************)
(* Generation and lookup, checked under Spec.                              *)
(***************************************************************************)

\* C24 as claimed: a creation request for a canonical path that has a
\* registered file in the directory does not invoke the short-name
\* generator: the Redirector that Redirector::new has just returned for
\* such a path holds no name the generator yields at that instant.
C24_GenerationOnlyOnMiss ==
    \A slot \in Held :
        (last.op = "new" /\ last.ok /\ EntryOnDisk(fs, rd[slot].r))
            => [panic |-> FALSE, name |-> rd[slot].r.short_file_name]
                   \notin GenerateShortFileName(rd[slot].r.long_path, now)

(***************************************************************************)
(* Redirector values of the public API, checked under SpecApi.             *)
(***************************************************************************)

\* C25 as claimed: every Redirector obtained through Redirector::new,
\* Default, clone and set_path holds a path the validating factory
\* returns, one that begins and ends with '/', has at least one segment, no
\* empty segment and none of ';', '#', '?'.
C25_CanonicalPathHeld ==
    \A slot \in Slots :
        rd[slot].live =>
            /\ UrlPathNew(rd[slot].r.long_path).ok
            /\ UrlPathNew(rd[slot].r.long_path).val = rd[slot].r.long_path
            /\ StartsWith(rd[slot].r.long_path, "/")
            /\ EndsWith(rd[slot].r.long_path, "/")
            /\ Len(rd[slot].r.long_path) >= 3
            /\ ~HasEmptySegment(rd[slot].r.long_path)
            /\ ~HasForbidden(rd[slot].r.long_path)

\* C26: a set_path call replaces the output directory of one Redirector and
\* nothing else: the canonical path and the short file name of every
\* Redirector are what they were, and no directory or file is created,
\* changed or removed.
C26_SetPathFrame ==
    [][last'.op = "set_path" =>
        /\ \E slot \in Slots, dir \in OutDirs :
            /\ rd[slot].live
            /\ rd' = [rd EXCEPT ![slot].r.path = dir]
        /\ \A slot \in Slots :
            /\ rd'[slot].r.long_path = rd[slot].r.long_path
            /\ rd'[slot].r.short_file_name = rd[slot].r.short_file_name
        /\ fs' = fs
        /\ created' = created]_vars

\* C26 happens: set_path has moved a Redirector made by Redirector::new, whose
\* redirect is already written in the first directory, to another one.
C26_Witness ==
    /\ last.op = "set_path"
    /\ \E slot \in Slots :
        /\ rd[slot].live
        /\ rd[slot].r.path = <<"t", "/", "n">>
        /\ rd[slot].r.long_path = <<"/", "a", "/">>
        /\ rd[slot].r.short_file_name # <<>>
        /\ Join(DefaultDir, rd[slot].r.short_file_name) \in DOMAIN fs.files

(***************************************************************************)
(* SpecAnagram: Redirector::generate_short_file_name called for several    *)
(* paths, some of them anagrams of each other, as the clock advances.      *)
(***************************************************************************)
MaxNames == 2

\* one-segment raw paths: anagrams of each other, with and without a sum
\* that wraps, and paths that are no anagram of another
AnagramInputs ==
    {<<"a", "b">>, <<"b", "a">>, <<"a", "a">>, <<"b">>,
     <<ReplacementChar, ReplacementChar, "a">>,
     <<ReplacementChar, "a", ReplacementChar>>,
     <<"a", ReplacementChar, ReplacementChar>>}

\* Redirector::generate_short_file_name(&long_path) for the path made from
\* raw, at the instant now
GenerateFor(raw) ==
    /\ Cardinality(names) < MaxNames
    /\ UrlPathNew(raw).ok
    /\ \E g \in GenerateShortFileName(UrlPathNew(raw).val, now) :
        names' = names \cup
            {[path |-> UrlPathNew(raw).val, t |-> now, panic |-> g.panic, name |-> g.name]}
    /\ UNCHANGED <<now, rd, fs, last, returned, created, faults, input, parsed, reparsed,
                   forms, page, proc>>

NextAnagram ==
    \/ Tick
    \/ \E raw \in AnagramInputs : GenerateFor(raw)

SpecAnagram == Init /\ [][NextAnagram]_vars

\* how many times the code unit c occurs in units
Occurrences(units, c) == Cardinality({i \in DOMAIN units : units[i] = c})

\* the two sequences of code units are permutations of one multiset
Anagrams(u, v) ==
    /\ Len(u) = Len(v)
    /\ \A c \in Range(u) \cup Range(v) : Occurrences(u, c) = Occurrences(v, c)

C28_EntryContentAgreement ==
    (faults = 0 /\ WholeRegistry(fs, DefaultDir)) =>
        \A e \in Members(fs, DefaultDir) :
            /\ e[2] \in DOMAIN fs.files
            /\ fs.files[e[2]] = Content(TRUE, Render(e[1]))

====
